---- MODULE Spec2Model ----
(***************************************************************************)
(* qless-py ForkingWorker (src/qless/workers/forking.py): the supervisor   *)
(* that forks `count` child workers, respawns the ones that die and relays *)
(* signals.  The supervisor is one Python 2 thread; a signal handler runs  *)
(* between two of its steps, and an exception raised by the handler        *)
(* (exit(0) raises SystemExit, os.kill raises OSError) unwinds from the    *)
(* step that was interrupted.                                              *)
(***************************************************************************)
EXTENDS Integers, Sequences, FiniteSets, TLC

(* ------------------------------ bounds --------------------------------- *)
\* number of children to launch (self.count, the `workers` option)
Count == 2
\* pids the kernel hands out to forked children: 1..MaxPid, never reused
MaxPid == 3
\* signals delivered to the supervisor in one run
MaxSignals == 2
\* longest list of jobs handed to divide()
MaxJobs == 3
\* largest number of groups asked of divide()
MaxWorkers == 3

Pids == 1..MaxPid
\* a direct child of the supervisor process that run() did not fork
StrayPid == MaxPid + 1
AllPids == Pids \cup {StrayPid}

\* self.signals(('TERM', 'INT', 'QUIT', 'HUP'))
TermSignals == {"TERM", "INT", "QUIT"}
Signals == TermSignals \cup {"HUP"}

NoPid == 0
NoPath == <<>>
\* no child stopped in the last step
NoExit == <<>>
\* no resumable jobs: Worker.__init__ turns a missing resume option into []
NoResume == <<>>
\* the jobs of the resume option the supervisor is constructed with
ResumeJobs == <<"j1", "j2", "j3">>

VARIABLES
  pc,         \* position of the supervisor in run()/stop()
  index,      \* `index` of the initial for loop
  sandboxes,  \* self.sandboxes: child pid -> sandbox path
  shutdown,   \* self.shutdown
  proc,       \* kernel view of each child: "none", "live", "zombie", "reaped"
  nextPid,    \* next pid os.fork() returns
  pid,        \* run(): `pid` returned by os.wait()
  sandbox,    \* run(): `sandbox`
  cpid,       \* run(): `cpid` returned by os.fork()
  exc,        \* the exception in flight ("none" when there is none)
  pending,    \* the exception run()'s finally clause re-raises after stop()
  stopKeys,   \* stop(): the list self.sandboxes.keys()
  si,         \* stop(): position in stopKeys
  spid,       \* stop(): local `pid` (NoPid while unbound)
  stopped,    \* stop() has returned
  reloads,    \* number of _reloadLogger() calls
  nsig,       \* signals delivered so far
  last,       \* name of the last step taken
  hSig,       \* signum of the handler call just made ("none" after any other step)
  hKeys,      \* keys of self.sandboxes when that handler call began
  hSent,      \* pids that handler call sent hSig to
  hCount,     \* pid -> number of os.kill calls of that handler call that reached it
  killed,     \* pids stop() has sent its signal to
  fwdExit,    \* pids that exited in response to a forwarded TERM/INT/QUIT
  evPre,      \* self.sandboxes when os.wait() returned in this iteration of the while loop
  evForks,    \* forks made in this iteration of the while loop
  sigLoop,    \* a TERM/INT/QUIT was delivered while run() was in its while loop
  sigStop,    \* a signal was delivered while stop() was running
  kwargs,     \* self.kwargs: the keyword options the supervisor was constructed with
  child,      \* forked pid -> what the child process got at fork: its branch of
              \* run(), its sandbox, the resume value its worker is built with and
              \* its copy of the keys of self.sandboxes
  termed,     \* a TERM/INT/QUIT has been delivered to the supervisor
  cx,         \* the child whose worker just stopped, its exit status and the pids
              \* it sent SIGKILL to (NoExit after any other step)
  part        \* divide(): its arguments and result (used by SpecDivide only)

code == <<pc, index, sandboxes, shutdown, pid, sandbox, cpid, exc, pending>>
stp  == <<stopKeys, si, spid, stopped>>
kern == <<proc, nextPid>>
hand == <<reloads, nsig, fwdExit, sigLoop, sigStop>>
call == <<hSig, hKeys, hSent, hCount>>
hist == <<killed, evPre, evForks>>
chld == <<kwargs, child, termed, cx, part>>
vars == <<code, stp, kern, hand, call, hist, last, chld>>

(* ------------------------------ helpers -------------------------------- *)
\* one path for every slot
SandboxPathShared(i) == <<"cwd", "qless-py-workers", "sandbox", 0>>

\* os.path.join(os.getcwd(), 'qless-py-workers', 'sandbox-%s' % index)
SandboxPath(i) == <<"cwd", "qless-py-workers", "sandbox", i>>

Keys(d) == DOMAIN d
PopNothing(d, k) == d

\* dict.pop(k, None)
PopDefault(d, k) == [q \in (DOMAIN d) \ {k} |-> d[q]]
\* d[k] = v
Put(d, k, v) == [q \in (DOMAIN d) \cup {k} |-> IF q = k THEN v ELSE d[q]]

\* the orders in which dict.keys() may list a key set
Orders(S) == {s \in [1..Cardinality(S) -> S] :
                \A i, j \in 1..Cardinality(S) : i # j => s[i] # s[j]}

IsOSError(e) == e \in {"OSError:EINTR", "OSError:ESRCH", "OSError:EAGAIN",
                       "OSError:ECHILD"}

\* os.kill(p, sig) raises OSError(ESRCH) when p has been reaped
KillFails(p) == proc[p] \in {"none", "reaped"}

\* a step of the supervisor that is not the end of a child's worker
NoChildStop == cx' = NoExit /\ UNCHANGED <<kwargs, part>>

\* a step that is not a handler call
NoCall == hSig' = "none" /\ hKeys' = {} /\ hSent' = {} /\ hCount' = <<>>

InitLoopPcs == {"fork_init", "record_init"}
WhilePcs    == {"while", "wait", "waited", "fork", "record", "except"}
InnerTryPcs == {"wait", "waited", "fork", "record"}
StopTryPcs  == {"stop_wait", "stop_finally"}
StopPcs     == {"stop_kill"} \cup StopTryPcs

(* ------------------ Worker.__init__, divide(), spawn() ------------------ *)
\* the keyword options ForkingWorker(queues, client, **kwargs) is given:
\* a supervisor constructed with jobs to resume
ConstructorKwargs == {[interval |-> 60, resume |-> ResumeJobs]}

\* Worker.__init__ (called at line 17) keeps the keyword options as
\* self.kwargs; lines 19 and 21 pop 'klass' and 'workers' from it
WorkerInit(kw) == kw

\* Worker.__init__: the resume value of a worker built with options kw
WorkerResume(kw) == IF "resume" \in DOMAIN kw THEN kw["resume"] ELSE NoResume

DivideDropsRemainder(jobs, n) ==
  [i \in 1..n |-> SubSeq(jobs, (i - 1) * (Len(jobs) \div n) + 1,
                               i * (Len(jobs) \div n))]

\* Worker.divide(jobs, n): n contiguous, evenly sized groups of jobs
Divide(jobs, n) ==
  [i \in 1..n |-> SubSeq(jobs, ((i - 1) * Len(jobs)) \div n + 1,
                               (i * Len(jobs)) \div n)]

\* lines 46-47: copy = dict(self.kwargs); copy.update(kwargs)
SpawnKwargs(over) ==
  [k \in (DOMAIN kwargs) \cup (DOMAIN over) |->
     IF k \in DOMAIN over THEN over[k] ELSE kwargs[k]]

\* lines 44-53 and 73: the resume value of the worker of startup slot i,
\* self.spawn(resume=resume[index], sandbox=sandbox)
InitialResume(i) ==
  WorkerResume(SpawnKwargs([resume |-> Divide(WorkerResume(kwargs), Count)[i + 1],
                            sandbox |-> SandboxPath(i)]))

\* lines 44-53 and 90: the resume value of the worker of a replacement,
\* self.spawn(sandbox=sandbox)
ReplacementResume == WorkerResume(SpawnKwargs([sandbox |-> sandbox]))

\* the job ids divide() is called with: lists of distinct jobs
Jobs == 1..(MaxJobs + 1)
JobLists ==
  UNION {{js \in [1..k -> Jobs] : \A a, b \in 1..k : a # b => js[a] # js[b]} :
         k \in 0..MaxJobs}

(* ------------------------------- Init ---------------------------------- *)
Constructed ==
  /\ pc = "signals"
  /\ index = 0
  /\ sandboxes = <<>>
  /\ shutdown = FALSE
  /\ proc = [p \in AllPids |-> IF p = StrayPid THEN "live" ELSE "none"]
  /\ nextPid = 1
  /\ pid = NoPid /\ sandbox = NoPath /\ cpid = NoPid
  /\ exc = "none" /\ pending = "none"
  /\ stopKeys = <<>> /\ si = 1 /\ spid = NoPid /\ stopped = FALSE
  /\ reloads = 0 /\ nsig = 0
  /\ last = "init"
  /\ hSig = "none" /\ hKeys = {} /\ hSent = {} /\ hCount = <<>>
  /\ killed = {} /\ fwdExit = {}
  /\ evPre = <<>> /\ evForks = 0
  /\ sigLoop = FALSE
  /\ sigStop = FALSE
  /\ kwargs \in {WorkerInit(kw) : kw \in ConstructorKwargs}
  /\ child = <<>>
  /\ termed = FALSE
  /\ cx = NoExit

Init == Constructed /\ part = <<>>

(* --------------------------- run(): startup ---------------------------- *)
\* line 57: self.signals(...); line 60: self.divide(...)
run_signals ==
  /\ pc = "signals"
  /\ pc' = (IF Count > 0 THEN "fork_init" ELSE "while")
  /\ last' = "run_signals"
  /\ NoChildStop
  /\ UNCHANGED child
  /\ UNCHANGED termed
  /\ NoCall
  /\ UNCHANGED <<index, sandboxes, shutdown, pid, sandbox, cpid, exc, pending,
                 stp, kern, hand, hist>>

\* lines 63-65: sandbox = os.path.join(...); cpid = os.fork()
run_fork_init ==
  /\ pc = "fork_init"
  /\ nextPid <= MaxPid
  /\ sandbox' = SandboxPath(index)
  /\ cpid' = nextPid
  /\ nextPid' = nextPid + 1
  /\ proc' = [proc EXCEPT ![nextPid] = "live"]
  /\ child' = Put(child, nextPid,
                  [branch |-> "initial", sandbox |-> SandboxPath(index),
                   resume |-> InitialResume(index), copy |-> Keys(sandboxes)])
  /\ pc' = "record_init"
  /\ last' = "run_fork_init"
  /\ NoChildStop
  /\ UNCHANGED termed
  /\ NoCall
  /\ UNCHANGED <<index, sandboxes, shutdown, pid, exc, pending, stp, hand, hist>>

\* lines 66-68: self.sandboxes[cpid] = sandbox, then the next index
run_record_init ==
  /\ pc = "record_init"
  /\ sandboxes' = Put(sandboxes, cpid, sandbox)
  /\ index' = index + 1
  /\ pc' = (IF index + 1 < Count THEN "fork_init" ELSE "while")
  /\ last' = "run_record_init"
  /\ NoChildStop
  /\ UNCHANGED child
  /\ UNCHANGED termed
  /\ NoCall
  /\ UNCHANGED <<shutdown, pid, sandbox, cpid, exc, pending, stp, kern, hand, hist>>


\* os.fork() fails in the startup loop: the OSError leaves run(), which has
\* no handler around lines 61-74
run_fork_init_fails ==
  /\ pc = "fork_init"
  /\ pc' = "terminated"
  /\ exc' = "OSError:EAGAIN"
  /\ last' = "run_fork_init_fails"
  /\ NoChildStop
  /\ UNCHANGED child
  /\ UNCHANGED termed
  /\ NoCall
  /\ UNCHANGED <<index, sandboxes, shutdown, pid, sandbox, cpid, pending,
                 stp, kern, hand, hist>>

(* ----------------------- entering stop(SIGKILL) ------------------------ *)
\* line 98: the signal run()'s finally clause passes to stop()
StopSig == "KILL"

\* lines 97-98: the finally clause of run() calls self.stop(signal.SIGKILL)
\* with exception e in flight; stop() lists self.sandboxes.keys()
EnterStop(e) ==
  /\ pending' = e
  /\ \E ks \in Orders(Keys(sandboxes)) : stopKeys' = ks
  /\ si' = 1
  /\ spid' = NoPid
  /\ IF Keys(sandboxes) = {}
       THEN pc' = "terminated" /\ exc' = e /\ stopped' = TRUE
       ELSE pc' = "stop_kill" /\ exc' = "none" /\ stopped' = FALSE

(* ------------------------- run(): the wait loop ------------------------ *)
\* line 77: while not self.shutdown
run_while ==
  /\ pc = "while"
  /\ IF ~shutdown
       THEN pc' = "wait" /\ UNCHANGED <<exc, pending, stp>>
       ELSE EnterStop("none")
  /\ evPre' = <<>>
  /\ evForks' = 0
  /\ last' = "run_while"
  /\ NoChildStop
  /\ UNCHANGED child
  /\ UNCHANGED termed
  /\ NoCall
  /\ UNCHANGED <<index, sandboxes, shutdown, pid, sandbox, cpid, kern, hand, killed>>

\* line 79: pid, status = os.wait() returns a child of this process that exited
run_wait ==
  /\ pc = "wait"
  /\ \E p \in AllPids :
       /\ proc[p] = "zombie"
       /\ pid' = p
       /\ proc' = [proc EXCEPT ![p] = "reaped"]
  /\ pc' = "waited"
  /\ evPre' = sandboxes
  /\ evForks' = 0
  /\ last' = "run_wait"
  /\ NoChildStop
  /\ UNCHANGED child
  /\ UNCHANGED termed
  /\ NoCall
  /\ UNCHANGED <<index, sandboxes, shutdown, sandbox, cpid, exc, pending,
                 stp, nextPid, hand, killed>>

\* line 82: sandbox = self.sandboxes.pop(pid); KeyError when pid is not a key
run_pop ==
  /\ pc = "waited"
  /\ IF pid \in Keys(sandboxes)
       THEN /\ sandbox' = sandboxes[pid]
            /\ sandboxes' = PopDefault(sandboxes, pid)
            /\ pc' = "fork"
            /\ UNCHANGED <<exc, pending, stp>>
       ELSE /\ EnterStop("KeyError")
            /\ UNCHANGED <<sandbox, sandboxes>>
  /\ last' = "run_pop"
  /\ NoChildStop
  /\ UNCHANGED child
  /\ UNCHANGED termed
  /\ NoCall
  /\ UNCHANGED <<index, shutdown, pid, cpid, kern, hand, hist>>

\* line 83: cpid = os.fork()
run_fork ==
  /\ pc = "fork"
  /\ nextPid <= MaxPid
  /\ cpid' = nextPid
  /\ nextPid' = nextPid + 1
  /\ proc' = [proc EXCEPT ![nextPid] = "live"]
  /\ evForks' = evForks + 1
  /\ child' = Put(child, nextPid,
                  [branch |-> "replacement", sandbox |-> sandbox,
                   resume |-> ReplacementResume, copy |-> Keys(sandboxes)])
  /\ pc' = "record"
  /\ last' = "run_fork"
  /\ NoChildStop
  /\ UNCHANGED termed
  /\ NoCall
  /\ UNCHANGED <<index, sandboxes, shutdown, pid, sandbox, exc, pending,
                 stp, hand, killed, evPre>>

\* line 83: os.fork() raises OSError
run_fork_fails ==
  /\ pc = "fork"
  /\ pc' = "except"
  /\ exc' = "OSError:EAGAIN"
  /\ last' = "run_fork_fails"
  /\ NoChildStop
  /\ UNCHANGED child
  /\ UNCHANGED termed
  /\ NoCall
  /\ UNCHANGED <<index, sandboxes, shutdown, pid, sandbox, cpid, pending,
                 stp, kern, hand, hist>>

\* a replacement recorded under a path built from the startup loop's index
ReplacementPathFromIndex == SandboxPath(index)

\* the path a replacement is recorded under (line 86: `sandbox`)
ReplacementPath == sandbox

\* lines 84-86: self.sandboxes[cpid] = sandbox
run_record ==
  /\ pc = "record"
  /\ sandboxes' = Put(sandboxes, cpid, ReplacementPath)
  /\ pc' = "while"
  /\ last' = "run_record"
  /\ NoChildStop
  /\ UNCHANGED child
  /\ UNCHANGED termed
  /\ NoCall
  /\ UNCHANGED <<index, shutdown, pid, sandbox, cpid, exc, pending,
                 stp, kern, hand, hist>>

\* an except clause that retries nothing
RetryNothing(e) == FALSE

\* line 93: if e.errno == errno.EINTR
Retry(e) == e = "OSError:EINTR"

\* lines 92-96: except OSError, e: continue on EINTR, raise otherwise
run_except ==
  /\ pc = "except"
  /\ IF Retry(exc)
       THEN pc' = "while" /\ exc' = "none" /\ UNCHANGED <<pending, stp>>
       ELSE EnterStop(exc)
  /\ last' = "run_except"
  /\ NoChildStop
  /\ UNCHANGED child
  /\ UNCHANGED termed
  /\ NoCall
  /\ UNCHANGED <<index, sandboxes, shutdown, pid, sandbox, cpid, kern, hand, hist>>

(* ------------------------------- stop() -------------------------------- *)
\* lines 29-31: os.kill(cpid, sig) for the next key; an OSError leaves stop()
\* and run()
stop_kill ==
  /\ pc = "stop_kill"
  /\ LET c == stopKeys[si] IN
       IF KillFails(c)
         THEN /\ pc' = "terminated"
              /\ exc' = "OSError:ESRCH"
              /\ UNCHANGED <<si, proc, killed>>
         ELSE /\ killed' = killed \cup {c}
              /\ proc' = [proc EXCEPT ![c] = IF StopSig = "KILL" THEN "zombie" ELSE @]
              /\ IF si < Len(stopKeys)
                   THEN si' = si + 1 /\ pc' = "stop_kill"
                   ELSE si' = 1 /\ pc' = "stop_wait"
              /\ exc' = exc
  /\ last' = "stop_kill"
  /\ NoChildStop
  /\ UNCHANGED child
  /\ UNCHANGED termed
  /\ NoCall
  /\ UNCHANGED <<index, sandboxes, shutdown, pid, sandbox, cpid, pending,
                 stopKeys, spid, stopped, nextPid, hand, evPre, evForks>>

\* lines 35-38: pid, status = os.waitpid(cpid, 0); blocks while cpid runs,
\* raises OSError(ECHILD) when cpid is not an unreaped child
stop_waitpid ==
  /\ pc = "stop_wait"
  /\ LET c == stopKeys[si] IN
       /\ proc[c] # "live"
       /\ IF proc[c] = "zombie"
            THEN /\ proc' = [proc EXCEPT ![c] = "reaped"]
                 /\ spid' = c
                 /\ exc' = "none"
            ELSE /\ exc' = "OSError:ECHILD"
                 /\ UNCHANGED <<proc, spid>>
  /\ pc' = "stop_finally"
  /\ last' = "stop_waitpid"
  /\ NoChildStop
  /\ UNCHANGED child
  /\ UNCHANGED termed
  /\ NoCall
  /\ UNCHANGED <<index, sandboxes, shutdown, pid, sandbox, cpid, pending,
                 stopKeys, si, stopped, nextPid, hand, hist>>

\* line 42: the key the finally clause pops (`pid`, the result of the last
\* successful waitpid of this stop() call)
StopPopKey == spid

\* lines 39-42: except OSError logs; finally: self.sandboxes.pop(pid, None)
\* (NameError while `pid` is unbound); then the next key, or stop() returns
\* and run() re-raises its pending exception
stop_finally ==
  /\ pc = "stop_finally"
  /\ IF StopPopKey = NoPid
       THEN /\ pc' = "terminated"
            /\ exc' = "NameError"
            /\ UNCHANGED <<sandboxes, si, stopped>>
       ELSE /\ sandboxes' = PopDefault(sandboxes, StopPopKey)
            /\ IF exc = "none" \/ IsOSError(exc)
                 THEN IF si < Len(stopKeys)
                        THEN /\ si' = si + 1
                             /\ pc' = "stop_wait"
                             /\ exc' = "none"
                             /\ stopped' = stopped
                        ELSE /\ si' = si
                             /\ pc' = "terminated"
                             /\ exc' = pending
                             /\ stopped' = TRUE
                 ELSE /\ pc' = "terminated"
                      /\ UNCHANGED <<exc, si, stopped>>
  /\ last' = "stop_finally"
  /\ NoChildStop
  /\ UNCHANGED child
  /\ UNCHANGED termed
  /\ NoCall
  /\ UNCHANGED <<index, shutdown, pid, sandbox, cpid, pending,
                 stopKeys, spid, kern, hand, hist>>

(* --------------------------- signal handler ---------------------------- *)
HandlerReturns(sig) ==
  IF \E p \in Keys(sandboxes) : KillFails(p) THEN "OSError:ESRCH" ELSE "none"

\* lines 102-109: what handler(signum) raises once its loop over
\* self.sandboxes.keys() is over or has failed
HandlerRaises(sig) ==
  IF \E p \in Keys(sandboxes) : KillFails(p) THEN "OSError:ESRCH"
  ELSE IF sig = "HUP" THEN "none"
  ELSE "SystemExit"

\* lines 103-104: the pids os.kill(cpid, signum) reaches: every key, or the
\* keys listed before the first one whose os.kill raises
HandlerTargets ==
  IF \E p \in Keys(sandboxes) : KillFails(p)
    THEN SUBSET {p \in Keys(sandboxes) : ~KillFails(p)}
    ELSE {Keys(sandboxes)}

\* where the exception e raised by the handler (or "none") takes the
\* interrupted code
Unwind(e) ==
  CASE pc \in InitLoopPcs ->
         /\ IF e = "none" THEN UNCHANGED <<pc, exc>>
                          ELSE pc' = "terminated" /\ exc' = e
         /\ UNCHANGED <<pending, stp>>
    [] pc \in WhilePcs ->
         IF e = "none"
           THEN /\ IF pc = "wait"
                     THEN pc' = "except" /\ exc' = "OSError:EINTR"
                     ELSE UNCHANGED <<pc, exc>>
                /\ UNCHANGED <<pending, stp>>
           ELSE IF IsOSError(e) /\ pc \in InnerTryPcs
                  THEN pc' = "except" /\ exc' = e /\ UNCHANGED <<pending, stp>>
                  ELSE EnterStop(e)
    [] pc = "stop_kill" ->
         /\ IF e = "none" THEN UNCHANGED <<pc, exc>>
                          ELSE pc' = "terminated" /\ exc' = e
         /\ UNCHANGED <<pending, stp>>
    [] pc \in StopTryPcs ->
         /\ IF e = "none"
              THEN IF pc = "stop_wait"
                     THEN pc' = "stop_finally" /\ exc' = "OSError:EINTR"
                     ELSE UNCHANGED <<pc, exc>>
              ELSE pc' = "stop_finally" /\ exc' = e
         /\ UNCHANGED <<pending, stp>>

\* lines 100-109: handler(signum, frame), run when sig is delivered to the
\* supervisor; a child sent sig may exit in response
handler(sig) ==
  /\ pc \notin {"signals", "terminated"}
  /\ nsig < MaxSignals
  /\ nsig' = nsig + 1
  /\ \E S \in HandlerTargets : \E D \in SUBSET {p \in S : proc[p] = "live"} :
       /\ proc' = [p \in AllPids |-> IF p \in D THEN "zombie" ELSE proc[p]]
       /\ fwdExit' = (IF sig \in TermSignals THEN fwdExit \cup D ELSE fwdExit)
       /\ hSent' = S
       /\ hCount' = [p \in Keys(sandboxes) |-> IF p \in S THEN 1 ELSE 0]
  /\ hSig' = sig
  /\ hKeys' = Keys(sandboxes)
  /\ reloads' = (IF HandlerRaises(sig) = "none" THEN reloads + 1 ELSE reloads)
  /\ sigLoop' = (sigLoop \/ (sig \in TermSignals /\ pc \in WhilePcs))
  /\ sigStop' = (sigStop \/ pc \in StopPcs)
  /\ termed' = (termed \/ sig \in TermSignals)
  /\ Unwind(HandlerRaises(sig))
  /\ last' = "handler"
  /\ NoChildStop
  /\ UNCHANGED child
  /\ UNCHANGED <<index, sandboxes, shutdown, pid, sandbox, cpid,
                 nextPid, hist>>

(* ----------------------------- environment ----------------------------- *)
\* a child process is ended from outside (killed, crashed interpreter)
child_exit ==
  /\ pc # "terminated"
  /\ \E p \in AllPids :
       /\ proc[p] = "live"
       /\ proc' = [proc EXCEPT ![p] = "zombie"]
  /\ last' = "child_exit"
  /\ NoChildStop
  /\ UNCHANGED child
  /\ UNCHANGED termed
  /\ NoCall
  /\ UNCHANGED <<code, stp, nextPid, hand, hist>>

(* ---------------------------- child process ---------------------------- *)
\* the pids the child's own stop(SIGKILL) is run on when its worker stops:
\* a replacement is forked inside the try of line 76, so the SystemExit of
\* exit(0) (line 91) or the worker's exception reaches the finally clause of
\* line 97 in the child, with the child's copy of self.sandboxes; a startup
\* child (lines 69-74) is outside that try
ChildStopKeys(p) ==
  IF child[p].branch = "replacement" THEN child[p].copy ELSE {}

\* the exit status of child p: 0 when exit(0) ends the process, 1 when an
\* exception does: the worker's own, or the one the child's stop() raises
\* (OSError from os.kill on a reaped pid, or waitpid of a pid that is not
\* its child fails and the finally clause of line 42 raises NameError)
ChildStatus(p, how) ==
  IF how = "raises" THEN 1
  ELSE IF ChildStopKeys(p) = {} THEN 0
  ELSE 1

\* lines 69-74 and 87-91 in the child: the worker's run() returns (then
\* exit(0)) or raises, also when the sandbox cannot be set up; the child's
\* stop(SIGKILL) sends SIGKILL to the pids of its copy of self.sandboxes
child_stops ==
  /\ pc # "terminated"
  /\ \E p \in DOMAIN child, how \in {"returns", "raises"} :
       /\ proc[p] = "live"
       /\ \E S \in (IF \E q \in ChildStopKeys(p) : KillFails(q)
                     THEN SUBSET {q \in ChildStopKeys(p) : ~KillFails(q)}
                     ELSE {ChildStopKeys(p)}) :
            /\ proc' = [q \in AllPids |->
                          IF q = p \/ (q \in S /\ proc[q] = "live")
                            THEN "zombie" ELSE proc[q]]
            /\ cx' = [pid |-> p, how |-> how,
                      status |-> ChildStatus(p, how), kills |-> S]
  /\ last' = "child_stops"
  /\ NoCall
  /\ UNCHANGED <<code, stp, nextPid, hand, hist, kwargs, child, termed, part>>

Next ==
  \/ run_signals
  \/ run_fork_init
  \/ run_fork_init_fails
  \/ run_record_init
  \/ run_while
  \/ run_wait
  \/ run_pop
  \/ run_fork
  \/ run_fork_fails
  \/ run_record
  \/ run_except
  \/ stop_kill
  \/ stop_waitpid
  \/ stop_finally
  \/ \E sig \in Signals : handler(sig)
  \/ child_exit
  \/ child_stops

Spec == Init /\ [][Next]_vars

(* ------------------------ divide() on its own -------------------------- *)
\* line 60 with any list of jobs and any worker count
InitDivide ==
  /\ Constructed
  /\ part \in {[jobs |-> js, n |-> n, out |-> <<>>, done |-> FALSE] :
                js \in JobLists, n \in 1..MaxWorkers}

\* line 60: resume = self.divide(self.resume, self.count)
divide_call ==
  /\ ~part.done
  /\ part' = [part EXCEPT !.out = Divide(part.jobs, part.n), !.done = TRUE]
  /\ UNCHANGED <<code, stp, kern, hand, call, hist, last, kwargs, child, termed, cx>>

NextDivide == divide_call

SpecDivide == InitDivide /\ [][NextDivide]_vars

TypeOK ==
  /\ pc \in {"signals", "fork_init", "record_init", "while", "wait", "waited",
             "fork", "record", "except", "stop_kill", "stop_wait",
             "stop_finally", "terminated"}
  /\ Keys(sandboxes) \subseteq Pids
  /\ shutdown \in BOOLEAN
  /\ proc \in [AllPids -> {"none", "live", "zombie", "reaped"}]

(* ------------------------------- claims -------------------------------- *)
Reaped(p) == proc[p] \in {"none", "reaped"}

\* C1: whenever the supervisor has terminated, every child it forked has
\* exited and has been reaped by it.
C1_NoChildOutlivesSupervisor ==
  pc = "terminated" => \A p \in Pids : Reaped(p)

C3_SignalFanOut ==
  (last = "handler" /\ hSig \in TermSignals) =>
     /\ hSent = hKeys
     /\ \A p \in hKeys : hCount[p] = 1

\* C4: stop() sends SIGKILL to no child that exited in response to the
\* TERM/INT/QUIT the handler forwarded to it.
C4_KillOnlyUnresponsive ==
  killed \cap fwdExit = {}

\* C5: when a TERM/INT/QUIT was delivered while run() was in its while loop
\* and the supervisor has terminated (here: with no signal delivered while
\* stop() ran), stop() has returned and self.sandboxes is empty.
C5_ShutdownCompletes ==
  (pc = "terminated" /\ sigLoop /\ ~sigStop) =>
     (stopped /\ Keys(sandboxes) = {})

\* C6: a HUP delivered while run() is in its while loop is sent to every key
\* of self.sandboxes, reloads the logger, leaves self.sandboxes alone, sends
\* no SIGKILL and leaves run() in the loop with nothing worse than an
\* interrupted wait to retry.
C6_HangupNotShutdown ==
  [][(last' = "handler" /\ hSig' = "HUP" /\ pc \in WhilePcs) =>
       /\ hSent' = Keys(sandboxes)
       /\ reloads' = reloads + 1
       /\ sandboxes' = sandboxes
       /\ killed' = killed
       /\ pc' \in WhilePcs
       /\ exc' \in {exc, "OSError:EINTR"}]_vars

\* C7: when os.wait() reported a pid that is no key of self.sandboxes, line 82
\* leaves the record alone, nothing is forked or killed and run() stays in
\* its loop with no exception in flight.
C7_UntrackedPidIgnored ==
  (last = "run_pop" /\ pid \notin Keys(evPre)) =>
     /\ sandboxes = evPre
     /\ evForks = 0
     /\ killed = {}
     /\ pc \in WhilePcs
     /\ exc = "none" /\ pending = "none"

\* C8: the except clause of the loop, entered with the OSError(EINTR) of an
\* interrupted os.wait(), goes back to the while test with no exception left,
\* and forks nothing, signals nothing and leaves self.sandboxes alone.
C8_InterruptedWaitRetried ==
  [][(pc = "except" /\ exc = "OSError:EINTR" /\ last' = "run_except") =>
       /\ pc' = "while"
       /\ exc' = "none"
       /\ pending' = pending
       /\ ~shutdown'
       /\ sandboxes' = sandboxes
       /\ proc' = proc
       /\ nextPid' = nextPid
       /\ killed' = killed]_vars

\* an os.wait() interrupted by a signal whose handler returned has been
\* retried: run() is back at the while test
C8_Witness ==
  /\ last = "run_except"
  /\ pc = "while"
  /\ exc = "none"
  /\ reloads > 0

\* C9: when the waitpid of stop() for the key stopKeys[si] failed with an
\* OSError, the finally clause removes that key from self.sandboxes and
\* stop() goes on to the next key (or returns); it raises nothing.
C9_StopSurvivesWaitError ==
  [][(pc = "stop_finally" /\ exc \in {"OSError:EINTR", "OSError:ECHILD"}
        /\ last' = "stop_finally"
  /\ NoChildStop
  /\ UNCHANGED child
  /\ UNCHANGED termed) =>
       /\ stopKeys[si] \notin Keys(sandboxes')
       /\ exc' # "NameError"
       /\ (pc' = "stop_wait" \/ stopped')]_vars

\* C10: when an error (not the SystemExit of a signal) left the while loop
\* and the supervisor has terminated (here: with no signal delivered while
\* stop() ran), stop() has returned, every child has been reaped,
\* self.sandboxes is empty and the error that leaves run() is the one that
\* left the loop.
C10_ErrorKillsReapsThenPropagates ==
  (pc = "terminated" /\ pending \notin {"none", "SystemExit"} /\ ~sigStop) =>
     /\ stopped
     /\ exc = pending
     /\ Keys(sandboxes) = {}
     /\ \A p \in Pids : Reaped(p)

\* no os.wait() has returned yet
NothingReaped == \A p \in AllPids : proc[p] # "reaped"

\* C11: when run() is at os.wait() and no os.wait() has returned yet, Count
\* children have been forked, self.sandboxes has Count entries and maps the
\* child of slot i to <cwd>/qless-py-workers/sandbox-i, Count distinct paths;
\* and a forked child whose exit os.wait() reports was a key of
\* self.sandboxes when it was reported.
C11_StartupComplete ==
  /\ (pc = "wait" /\ NothingReaped) =>
       /\ nextPid = Count + 1
       /\ Keys(sandboxes) = 1..Count
       /\ \A p \in 1..Count : sandboxes[p] = SandboxPath(p - 1)
       /\ Cardinality({sandboxes[p] : p \in Keys(sandboxes)}) = Count
       /\ \A p \in 1..Count : proc[p] \in {"live", "zombie"}
  /\ (last = "run_wait" /\ pid \in Pids) => pid \in Keys(evPre)

\* run() has just passed the while test for the first time
C11_Witness ==
  /\ pc = "wait"
  /\ last = "run_while"
  /\ NothingReaped
  /\ Cardinality(Keys(sandboxes)) = Count

\* C12: the worker of a replacement child is built with no jobs to resume,
\* and the worker of the startup child of slot i with the i-th group the
\* partitioner made of the supervisor's resume value.
C12_ReplacementStartsFresh ==
  \A p \in DOMAIN child :
    /\ child[p].branch = "replacement" => child[p].resume = NoResume
    /\ child[p].branch = "initial" =>
         \E i \in 0..(Count - 1) :
           /\ child[p].sandbox = SandboxPath(i)
           /\ child[p].resume = Divide(WorkerResume(kwargs), Count)[i + 1]

\* C13: a forked child, initial or replacement, whose worker's run loop
\* returns normally ends with exit status zero.
C13_ChildExitsZero ==
  (cx # NoExit /\ cx.how = "returns") => cx.status = 0

\* C14: the shutdown flag is false at start, true once a terminate, interrupt
\* or quit signal has been delivered to the supervisor, and stays true.
C14_ShutdownFlagLifecycle ==
  /\ termed => shutdown
  /\ ~termed => ~shutdown

\* C15: divide(jobs, n) returns exactly n groups, every job of the input
\* is in one of them, no group holds a job that is not in the input, and no
\* job is in two groups.
C15_PartitionCoverage ==
  (part # <<>> /\ part.done) =>
    LET in == {part.jobs[k] : k \in DOMAIN part.jobs}
        group(i) == {part.out[i][k] : k \in DOMAIN part.out[i]}
    IN  /\ DOMAIN part.out = 1..part.n
        /\ UNION {group(i) : i \in 1..part.n} = in
        /\ \A i, j \in 1..part.n : i # j => group(i) \cap group(j) = {}
        /\ \A i \in 1..part.n :
             \A a, b \in DOMAIN part.out[i] :
               a # b => part.out[i][a] # part.out[i][b]

\* more groups than one, and a number of jobs they do not divide
C15_Witness ==
  /\ part # <<>>
  /\ part.done
  /\ part.n > 1
  /\ Len(part.jobs) % part.n # 0
  /\ \E i \in 1..part.n : part.out[i] = <<>>

\* C16: no two keys of self.sandboxes map to the same path, no two forked
\* children that are still running were given the same sandbox path, and a
\* replacement is forked only for a pid that os.wait() reported, that was a
\* key and has been removed, as the one fork of that iteration and with the
\* path the removed key had.
C16_SandboxExclusivity ==
  /\ \A p, q \in Keys(sandboxes) : p # q => sandboxes[p] # sandboxes[q]
  /\ \A p, q \in DOMAIN child :
       (p # q /\ proc[p] = "live" /\ proc[q] = "live") =>
          child[p].sandbox # child[q].sandbox
  /\ last = "run_fork" =>
       /\ pid \in Keys(evPre)
       /\ pid \notin Keys(sandboxes)
       /\ Reaped(pid)
       /\ evForks = 1
       /\ child[cpid].sandbox = evPre[pid]

\* a replacement has just been forked while another child is running
C16_Witness ==
  /\ last = "run_fork"
  /\ proc[cpid] = "live"
  /\ child[cpid].branch = "replacement"
  /\ \E q \in Keys(sandboxes) : proc[q] = "live"

\* C17: a child process that ends, by returning from its worker or by an
\* error, runs no stop() pass over the pids it inherited and signals no
\* other child.
C17_ChildIsolation ==
  cx # NoExit => (ChildStopKeys(cx.pid) = {} /\ cx.kills = {})

\* C18: once a TERM, INT or QUIT has been delivered to the supervisor, no
\* step of the supervisor forks a child or attempts to, whatever line the
\* signal interrupted.
C18_NoRespawnAfterShutdown ==
  [][termed => /\ nextPid' = nextPid
               /\ child' = child
               /\ last' \notin {"run_fork", "run_fork_init",
                                "run_fork_fails", "run_fork_init_fails"}]_vars

\* the signal arrived after os.wait() reported a tracked child and line 82
\* removed it, before the fork of line 83
C18_Witness ==
  /\ termed
  /\ last = "handler"
  /\ hSig \in TermSignals
  /\ pid \in Keys(evPre)
  /\ pid \notin Keys(sandboxes)
  /\ Keys(sandboxes) # {}
  /\ evForks = 0

====
